---- MODULE Spec2Model ----
(***************************************************************************)
(* The Proximus demo web service: the brute-force lockout tracker guarding *)
(* POST /api/login, the session gate of the protected routes, the SSE      *)
(* stream's per-connection interval timer, the filtered dataset read and   *)
(* the MCP query bridge.  The repository holds two programs: the           *)
(* single-file app (src/unnamed/part_000) and the demo service             *)
(* (src/server.js).  A behaviour is a run of one of them.                  *)
(*                                                                         *)
(* Strings that the code converts (query parameters, the X-Forwarded-For   *)
(* header, country and status codes) are sequences of one-character        *)
(* strings, so that toUpperCase, parseInt, split and trim are computed.    *)
(* Strings that are only compared or copied are TLA+ strings.              *)
(***************************************************************************)
EXTENDS Integers, Sequences, FiniteSets

VARIABLES
  now,        \* Date.now(), in milliseconds
  lockouts,   \* part_000: const lockouts = new Map(), ip -> {attempts, until}
  session,    \* the session store: client (cookie) -> req.session.user or NoUser
  smsData,    \* part_000: smsData; server.js: DATA
  MCP_URL,    \* process.env.MCP_URL || null
  DEMO_API_KEY, \* server.js: process.env.DEMO_API_KEY || null
  conns,      \* open and closed /api/sms/stream connections
  timers,     \* the interval timers that are scheduled (setInterval handles)
  call,       \* the request handled by the last step, and what its handler did
  res,        \* the response written by the last step
  hist        \* per identity: the outcomes of its login attempts (history)

vars == <<now, lockouts, session, smsData, MCP_URL, DEMO_API_KEY, conns, timers, call, res, hist>>

----------------------------------------------------------------------------
(* Bounds of the model *)

\* how many times the clock is advanced
MaxAdvances == 2
\* the consecutive-failure count of the history saturates here
FailCap == 4
\* the datasets Math.random() may generate are drawn from seeds 0..MaxSeed
MaxSeed == 3
\* the records of the dataset (the code builds 500 in part_000, 400 in server.js)
DataSize == 5
\* stream connections opened in one run
MaxConns == 2
\* interval ticks counted per connection
MaxTicks == 2

----------------------------------------------------------------------------
(* Program constants *)

MAX_ATTEMPTS == 3
LOCK_MINUTES == 10
MINUTE_MS == 60000
LOCK_MS == LOCK_MINUTES * MINUTE_MS
WEEK_MS == 1000 * 60 * 60 * 24 * 7
LATENCY_MIN == 100
LATENCY_SPAN == 3000
DEFAULT_LIMIT == 100
SMS_MAX_LIMIT == 500
DATA_MAX_LIMIT == 1000
MOCK_SLICE == 200

\* the clock starts here and advances by TimeStep (half the lock duration, so
\* that a lock's `until` is reached exactly)
StartTime == WEEK_MS
TimeStep == LOCK_MS \div 2

----------------------------------------------------------------------------
(* JavaScript values *)

\* undefined, where a string may stand (an absent header, query parameter or field)
Undefined == <<"undefined">>
Null == <<"null">>
NoUser == "none"
NaN == [nan |-> TRUE, val |-> 0]
Num(n) == [nan |-> FALSE, val |-> n]

\* a string is truthy unless empty; undefined and null are falsy
Truthy(s) == s /= Undefined /\ s /= Null /\ s /= <<>>

Min(a, b) == IF a <= b THEN a ELSE b
Max(a, b) == IF a >= b THEN a ELSE b

LowerLetters == <<"a","b","c","d","e","f","g","h","i","j","k","l","m",
                  "n","o","p","q","r","s","t","u","v","w","x","y","z">>
UpperLetters == <<"A","B","C","D","E","F","G","H","I","J","K","L","M",
                  "N","O","P","Q","R","S","T","U","V","W","X","Y","Z">>
Digits == <<"0","1","2","3","4","5","6","7","8","9">>

UpperChar(ch) ==
  IF \E k \in 1..26 : LowerLetters[k] = ch
  THEN UpperLetters[CHOOSE k \in 1..26 : LowerLetters[k] = ch]
  ELSE ch

\* String(x).toUpperCase()
toUpperCase(s) == [i \in 1..Len(s) |-> UpperChar(s[i])]

IsDigit(ch) == \E k \in 1..10 : Digits[k] = ch
DigitVal(ch) == (CHOOSE k \in 1..10 : Digits[k] = ch) - 1

RECURSIVE TrimStart(_)
TrimStart(s) == IF s /= <<>> /\ Head(s) = " " THEN TrimStart(Tail(s)) ELSE s

RECURSIVE TrimEnd(_)
TrimEnd(s) ==
  IF s /= <<>> /\ s[Len(s)] = " " THEN TrimEnd(SubSeq(s, 1, Len(s) - 1)) ELSE s

\* String.prototype.trim
trim(s) == TrimEnd(TrimStart(s))

\* the number of leading digits of s
RECURSIVE DigitPrefix(_)
DigitPrefix(s) ==
  IF s /= <<>> /\ IsDigit(Head(s)) THEN 1 + DigitPrefix(Tail(s)) ELSE 0

RECURSIVE DigitsValue(_, _)
DigitsValue(s, n) ==
  IF n = 0 THEN 0 ELSE 10 * DigitsValue(s, n - 1) + DigitVal(s[n])

\* parseInt(s, 10): leading white space is skipped, a sign is read, then the
\* longest run of digits; NaN when there is none
parseInt(s) ==
  LET t == TrimStart(s)
      signed == t /= <<>> /\ Head(t) \in {"-", "+"}
      u == IF signed THEN Tail(t) ELSE t
      n == DigitPrefix(u)
      v == DigitsValue(u, n)
  IN  IF n = 0 THEN NaN
      ELSE IF signed /\ Head(t) = "-" THEN Num(0 - v) ELSE Num(v)

\* x || d, for a number x: NaN and 0 are falsy
OrDefault(x, d) == IF x.nan \/ x.val = 0 THEN d ELSE x.val

\* s.split(',')[0]
RECURSIVE FirstField(_)
FirstField(s) ==
  IF s = <<>> \/ Head(s) = "," THEN <<>> ELSE <<Head(s)>> \o FirstField(Tail(s))

\* arr.slice(0, n): a negative n counts from the end
slice(arr, n) ==
  LET stop == IF n < 0 THEN Max(Len(arr) + n, 0) ELSE Min(n, Len(arr))
  IN  SubSeq(arr, 1, stop)

\* Math.ceil(a / b), for a > 0 and b > 0
CeilDiv(a, b) == (a + b - 1) \div b

----------------------------------------------------------------------------
(* The lockout tracker (part_000) *)

NoEntry == [attempts |-> 0, until |-> 0]

\* lockouts.delete(ip)
MapDelete(m, k) == [x \in DOMAIN m \ {k} |-> m[x]]
\* lockouts.set(ip, entry)
MapSet(m, k, v) == [x \in DOMAIN m \cup {k} |-> IF x = k THEN v ELSE m[x]]

\* a check that keeps an identity locked once it has been locked, whatever the time
checkLockoutSticky(m, ip, t) ==
  IF ip \notin DOMAIN m THEN [locked |-> FALSE, minutesLeft |-> 0, lockouts |-> m]
  ELSE IF m[ip].until /= 0
       THEN [locked |-> TRUE,
             minutesLeft |-> CeilDiv(Max(m[ip].until - t, 1), MINUTE_MS), lockouts |-> m]
       ELSE [locked |-> FALSE, minutesLeft |-> 0, lockouts |-> MapDelete(m, ip)]

\* checkLockout(ip) at time t on the map m: the result, and the map it leaves
checkLockout(m, ip, t) ==
  IF ip \notin DOMAIN m THEN [locked |-> FALSE, minutesLeft |-> 0, lockouts |-> m]
  ELSE IF m[ip].until /= 0 /\ m[ip].until > t
       THEN [locked |-> TRUE,
             minutesLeft |-> CeilDiv(m[ip].until - t, MINUTE_MS), lockouts |-> m]
       ELSE [locked |-> FALSE, minutesLeft |-> 0, lockouts |-> MapDelete(m, ip)]

\* a registerAttempt that counts a success as one more failure
registerAttemptNoClear(m, ip, success, t) ==
  LET entry == IF ip \in DOMAIN m THEN m[ip] ELSE NoEntry
      n == entry.attempts + 1
  IN  IF n >= MAX_ATTEMPTS
      THEN MapSet(m, ip, [attempts |-> 0, until |-> t + LOCK_MS])
      ELSE MapSet(m, ip, [attempts |-> n, until |-> entry.until])

\* a registerAttempt whose success empties the map (lockouts.clear())
registerAttemptClearsAll(m, ip, success, t) ==
  LET entry == IF ip \in DOMAIN m THEN m[ip] ELSE NoEntry
      n == entry.attempts + 1
  IN  IF success THEN << >>
      ELSE IF n >= MAX_ATTEMPTS
           THEN MapSet(m, ip, [attempts |-> 0, until |-> t + LOCK_MS])
           ELSE MapSet(m, ip, [attempts |-> n, until |-> entry.until])

\* a registerAttempt that locks without resetting the counter
registerAttemptNoReset(m, ip, success, t) ==
  LET entry == IF ip \in DOMAIN m THEN m[ip] ELSE NoEntry
      n == entry.attempts + 1
  IN  IF success THEN MapDelete(m, ip)
      ELSE IF n >= MAX_ATTEMPTS
           THEN MapSet(m, ip, [attempts |-> MAX_ATTEMPTS, until |-> t + LOCK_MS])
           ELSE MapSet(m, ip, [attempts |-> n, until |-> entry.until])

\* registerAttempt(ip, success) at time t on the map m: the map it leaves
registerAttempt(m, ip, success, t) ==
  LET entry == IF ip \in DOMAIN m THEN m[ip] ELSE NoEntry
      n == entry.attempts + 1
  IN  IF success THEN MapDelete(m, ip)
      ELSE IF n >= MAX_ATTEMPTS
           THEN MapSet(m, ip, [attempts |-> 0, until |-> t + LOCK_MS])
           ELSE MapSet(m, ip, [attempts |-> n, until |-> entry.until])

\* the identity is locked at time t
Locked(m, ip, t) == ip \in DOMAIN m /\ m[ip].until /= 0 /\ m[ip].until > t

\* lockouts.get(ip), as a set: empty when the map has no entry
EntryOf(m, ip) == IF ip \in DOMAIN m THEN {m[ip]} ELSE {}

----------------------------------------------------------------------------
(* The dataset *)

countries == << <<"U","S">>, <<"G","B">>, <<"D","E">>, <<"F","R">>, <<"B","R">>,
                <<"I","N">>, <<"M","X">>, <<"C","O">>, <<"E","S">>, <<"I","T">> >>
carriers == <<"TeleOne", "GlobalTel", "SkyMobile", "ProNet">>
DELIVERED == <<"D","E","L","I","V","E","R","E","D">>
FAILED == <<"F","A","I","L","E","D">>
BLOCKED == <<"B","L","O","C","K","E","D">>
PENDING == <<"P","E","N","D","I","N","G">>
statuses == <<DELIVERED, FAILED, BLOCKED, PENDING>>

\* Math.floor(Math.random() * n), the k-th draw for record i of the dataset of
\* seed s: seed 0 draws 0 every time, seed 1 draws n - 1 every time, the other
\* seeds mix
Draw(s, i, k, n) ==
  IF s = 0 THEN 0
  ELSE IF s = 1 THEN n - 1
  ELSE (s * (i * (2 * k + 5) + 3 * k + (i \div 7))) % n

\* one record of the dataset, as the generator loop pushes it
Record(s, i, t, msg) ==
  [id |-> i,
   country |-> countries[Draw(s, i, 1, Len(countries)) + 1],
   carrier |-> carriers[Draw(s, i, 2, Len(carriers)) + 1],
   status |-> statuses[Draw(s, i, 3, Len(statuses)) + 1],
   latency_ms |-> Draw(s, i, 4, LATENCY_SPAN) + LATENCY_MIN,
   message |-> msg,
   timestamp |-> t - Draw(s, i, 5, WEEK_MS)]

\* part_000: the smsData array built at startup
smsDataInit(s, t) == [i \in 1..DataSize |-> Record(s, i, t, "Hello from Proximus demo")]

\* server.js: seedData(n = 400)
seedData(s, t) == [i \in 1..DataSize |-> Record(s, i, t, "Hello from Proximus")]

----------------------------------------------------------------------------
(* Requests *)

Clients == {"c1", "c2"}

\* req.socket.remoteAddress of a client's connection
RemoteOf(c) == IF c = "c1" THEN <<"a">> ELSE <<"b">>

\* the X-Forwarded-For headers requests carry: none, " b ,a" and ",a"
XffHeaders == {Undefined, <<" ", "b", " ", ",", "a">>, <<",", "a">>}

LOCAL_IP == <<"l","o","c","a","l">>

\* req.headers['x-forwarded-for']?.split(',')[0]?.trim()
\*   || req.socket.remoteAddress || 'local'
ClientIp(xff, remote) ==
  LET first == IF xff = Undefined THEN Undefined ELSE trim(FirstField(xff))
  IN  IF Truthy(first) THEN first
      ELSE IF Truthy(remote) THEN remote ELSE LOCAL_IP

Identities == {ClientIp(x, RemoteOf(c)) : x \in XffHeaders, c \in Clients}

\* the {username, password} bodies login requests carry
Credentials == {[username |-> "proximus", password |-> "proximus123"],
                [username |-> "proximus", password |-> "letmein"],
                [username |-> "admin", password |-> "proximus123"]}

DemoUser == "Proximus Demo User"

NoBody == [username |-> "", password |-> ""]

\* call: the route, the client, the identity the login route computed, the
\* session's user when the request came in, the body and the query it carried,
\* the upstream's answer, whether the handler called the upstream and read the
\* dataset, how many times it called registerAttempt, and the entry the
\* tracker held for the identity when the request came in (as a set)
NoQuery == [country |-> Undefined, status |-> Undefined, limit |-> Undefined,
            resource |-> "", key |-> Undefined]
NoUpstream == [failed |-> FALSE, status |-> 0, ctJson |-> FALSE, parses |-> FALSE,
               body |-> ""]
NoCall == [op |-> "none", client |-> "none", ip |-> <<>>, user |-> NoUser,
           body |-> NoBody, query |-> NoQuery, upstream |-> NoUpstream,
           fetched |-> FALSE, read |-> FALSE, registered |-> 0, entry |-> {}]
NoRes == [status |-> 0, error |-> "", details |-> "", minutesLeft |-> 0,
          source |-> "", data |-> <<>>]

\* res.status(status).json({error}) and res.json(data)
ErrorRes(status, error) == [NoRes EXCEPT !.status = status, !.error = error]
JsonRes(data) == [NoRes EXCEPT !.status = 200, !.data = data]

----------------------------------------------------------------------------
(* The history of login outcomes, per identity *)

FFSFF == <<"fail", "fail", "ok", "fail", "fail">>

\* the longest prefix of FFSFF that ends the history, after one more outcome
NextStage(k, outcome) ==
  LET h == SubSeq(FFSFF, 1, k) \o <<outcome>>
      fits == {j \in 0..Min(Len(h), Len(FFSFF)) :
                 SubSeq(h, Len(h) - j + 1, Len(h)) = SubSeq(FFSFF, 1, j)}
  IN  CHOOSE j \in fits : \A i \in fits : i <= j

NoHist == [fails |-> 0, lastFailAt |-> 0, stage |-> 0]

\* fails: the failed attempts (401) since the identity's last success;
\* lastFailAt: the time of the last 401; stage: progress along FFSFF
Record401(h, t) == [fails |-> Min(h.fails + 1, FailCap), lastFailAt |-> t,
                    stage |-> NextStage(h.stage, "fail")]
Record200(h) == [h EXCEPT !.fails = 0, !.stage = NextStage(h.stage, "ok")]
Record429(h) == [h EXCEPT !.stage = NextStage(h.stage, "locked")]

----------------------------------------------------------------------------
(* part_000: the authentication routes *)

\* the state once the module is loaded: the dataset of seed s, the environment
\* giving MCP_URL = url
Startup(s, url) ==
  /\ now = StartTime
  /\ lockouts = << >>
  /\ session = [c \in Clients |-> NoUser]
  /\ smsData = smsDataInit(s, StartTime)
  /\ MCP_URL = url
  /\ DEMO_API_KEY = Null
  /\ conns = << >>
  /\ timers = << >>
  /\ call = NoCall
  /\ res = NoRes
  /\ hist = [ip \in Identities |-> NoHist]

\* a login route that counts an attempt made while locked as one more failure
LoginRegistersLocked(c, xff, remote, body) ==
  LET ip == ClientIp(xff, remote)
      lock == checkLockout(lockouts, ip, now)
      ok == body.username = "proximus" /\ body.password = "proximus123"
      req == [NoCall EXCEPT !.op = "login", !.client = c, !.ip = ip,
                            !.user = session[c], !.body = body,
                            !.entry = EntryOf(lockouts, ip),
                            !.registered = IF lock.locked THEN 0 ELSE 1]
  IN  /\ call' = req
      /\ IF lock.locked
         THEN /\ lockouts' = registerAttempt(lock.lockouts, ip, FALSE, now)
              /\ res' = [ErrorRes(429, "Too many attempts") EXCEPT
                           !.minutesLeft = lock.minutesLeft]
              /\ session' = session
              /\ hist' = [hist EXCEPT ![ip] = Record429(@)]
         ELSE /\ lockouts' = registerAttempt(lock.lockouts, ip, ok, now)
              /\ IF ~ok
                 THEN /\ res' = ErrorRes(401, "Invalid credentials")
                      /\ session' = session
                      /\ hist' = [hist EXCEPT ![ip] = Record401(@, now)]
                 ELSE /\ session' = [session EXCEPT ![c] = DemoUser]
                      /\ res' = JsonRes([ok |-> TRUE])
                      /\ hist' = [hist EXCEPT ![ip] = Record200(@)]
      /\ UNCHANGED <<now, smsData, MCP_URL, DEMO_API_KEY, conns, timers>>

\* a login route that destroys the caller's session when it turns the attempt away
LoginDropsSession(c, xff, remote, body) ==
  LET ip == ClientIp(xff, remote)
      lock == checkLockout(lockouts, ip, now)
      ok == body.username = "proximus" /\ body.password = "proximus123"
      req == [NoCall EXCEPT !.op = "login", !.client = c, !.ip = ip,
                            !.user = session[c], !.body = body,
                            !.entry = EntryOf(lockouts, ip),
                            !.registered = IF lock.locked THEN 0 ELSE 1]
  IN  /\ call' = req
      /\ IF lock.locked
         THEN /\ lockouts' = lock.lockouts
              /\ res' = [ErrorRes(429, "Too many attempts") EXCEPT
                           !.minutesLeft = lock.minutesLeft]
              /\ session' = [session EXCEPT ![c] = NoUser]
              /\ hist' = [hist EXCEPT ![ip] = Record429(@)]
         ELSE /\ lockouts' = registerAttempt(lock.lockouts, ip, ok, now)
              /\ IF ~ok
                 THEN /\ res' = ErrorRes(401, "Invalid credentials")
                      /\ session' = [session EXCEPT ![c] = NoUser]
                      /\ hist' = [hist EXCEPT ![ip] = Record401(@, now)]
                 ELSE /\ session' = [session EXCEPT ![c] = DemoUser]
                      /\ res' = JsonRes([ok |-> TRUE])
                      /\ hist' = [hist EXCEPT ![ip] = Record200(@)]
      /\ UNCHANGED <<now, smsData, MCP_URL, DEMO_API_KEY, conns, timers>>

\* app.post('/api/login')
Login(c, xff, remote, body) ==
  LET ip == ClientIp(xff, remote)
      lock == checkLockout(lockouts, ip, now)
      ok == body.username = "proximus" /\ body.password = "proximus123"
      req == [NoCall EXCEPT !.op = "login", !.client = c, !.ip = ip,
                            !.user = session[c], !.body = body,
                            !.entry = EntryOf(lockouts, ip),
                            !.registered = IF lock.locked THEN 0 ELSE 1]
  IN  /\ call' = req
      /\ IF lock.locked
         THEN /\ lockouts' = lock.lockouts
              /\ res' = [ErrorRes(429, "Too many attempts") EXCEPT
                           !.minutesLeft = lock.minutesLeft]
              /\ session' = session
              /\ hist' = [hist EXCEPT ![ip] = Record429(@)]
         ELSE /\ lockouts' = registerAttempt(lock.lockouts, ip, ok, now)
              /\ IF ~ok
                 THEN /\ res' = ErrorRes(401, "Invalid credentials")
                      /\ session' = session
                      /\ hist' = [hist EXCEPT ![ip] = Record401(@, now)]
                 ELSE /\ session' = [session EXCEPT ![c] = DemoUser]
                      /\ res' = JsonRes([ok |-> TRUE])
                      /\ hist' = [hist EXCEPT ![ip] = Record200(@)]
      /\ UNCHANGED <<now, smsData, MCP_URL, DEMO_API_KEY, conns, timers>>

\* a logout that also clears the timers of its client's streams
LogoutCancelsStreams(c) ==
  /\ call' = [NoCall EXCEPT !.op = "logout", !.client = c, !.user = session[c]]
  /\ session' = [session EXCEPT ![c] = NoUser]
  /\ res' = JsonRes([ok |-> TRUE])
  /\ timers' = [n \in DOMAIN timers |-> IF conns[n].client = c THEN 0 ELSE timers[n]]
  /\ UNCHANGED <<now, lockouts, smsData, MCP_URL, DEMO_API_KEY, conns, hist>>

\* a logout that turns away a client with no session
LogoutStrict(c) ==
  /\ call' = [NoCall EXCEPT !.op = "logout", !.client = c, !.user = session[c]]
  /\ session' = [session EXCEPT ![c] = NoUser]
  /\ res' = IF session[c] = NoUser THEN ErrorRes(401, "Unauthorized")
            ELSE JsonRes([ok |-> TRUE])
  /\ UNCHANGED <<now, lockouts, smsData, MCP_URL, DEMO_API_KEY, conns, timers, hist>>

\* app.post('/api/logout'): req.session.destroy(() => res.json({ok: true}))
Logout(c) ==
  /\ call' = [NoCall EXCEPT !.op = "logout", !.client = c, !.user = session[c]]
  /\ session' = [session EXCEPT ![c] = NoUser]
  /\ res' = JsonRes([ok |-> TRUE])
  /\ UNCHANGED <<now, lockouts, smsData, MCP_URL, DEMO_API_KEY, conns, timers, hist>>

\* the session cookie's maxAge (one hour) runs out: the store drops the session
SessionExpire(c) ==
  /\ session[c] /= NoUser
  /\ session' = [session EXCEPT ![c] = NoUser]
  /\ call' = NoCall
  /\ res' = NoRes
  /\ UNCHANGED <<now, lockouts, smsData, MCP_URL, DEMO_API_KEY, conns, timers, hist>>

\* time passes
Advance ==
  /\ now < StartTime + MaxAdvances * TimeStep
  /\ now' = now + TimeStep
  /\ call' = NoCall
  /\ res' = NoRes
  /\ UNCHANGED <<lockouts, session, smsData, MCP_URL, DEMO_API_KEY, conns, timers, hist>>

\* checkLockout(ip), called on its own: the tracker as a unit
CheckStep(ip) ==
  LET lock == checkLockout(lockouts, ip, now)
  IN  /\ lockouts' = lock.lockouts
      /\ call' = [NoCall EXCEPT !.op = "check", !.ip = ip,
                                !.entry = EntryOf(lockouts, ip)]
      /\ res' = [NoRes EXCEPT !.error = IF lock.locked THEN "locked" ELSE "",
                              !.minutesLeft = lock.minutesLeft]
      /\ UNCHANGED <<now, session, smsData, MCP_URL, DEMO_API_KEY, conns, timers, hist>>

\* registerAttempt(ip, success), called on its own
RegisterStep(ip, success) ==
  /\ lockouts' = registerAttempt(lockouts, ip, success, now)
  /\ call' = [NoCall EXCEPT !.op = "register", !.ip = ip, !.registered = 1,
                            !.entry = EntryOf(lockouts, ip),
                            !.body = IF success THEN [username |-> "proximus",
                                                      password |-> "proximus123"]
                                     ELSE NoBody]
  /\ res' = NoRes
  /\ UNCHANGED <<now, session, smsData, MCP_URL, DEMO_API_KEY, conns, timers, hist>>

NextAuth ==
  \/ \E c \in Clients, x \in XffHeaders, b \in Credentials :
       Login(c, x, RemoteOf(c), b)
  \/ \E c \in Clients : Logout(c)
  \/ \E c \in Clients : SessionExpire(c)
  \/ Advance

InitAuth == Startup(2, Null)

SpecAuth == InitAuth /\ [][NextAuth]_vars

----------------------------------------------------------------------------
(* part_000: the session gate and the protected routes *)

\* a gate that lets every request through
requireAuthOpen(user) == TRUE

\* requireAuth: req.session && req.session.user
requireAuth(user) == user /= NoUser

Unauthorized == ErrorRes(401, "Unauthorized")

\* out.filter(r => r.country === String(country).toUpperCase()), when country is
\* truthy, then the same for status
FilterBy(data, country, status) ==
  LET byCountry == IF Truthy(country)
                   THEN SelectSeq(data, LAMBDA r : r.country = toUpperCase(country))
                   ELSE data
  IN  IF Truthy(status)
      THEN SelectSeq(byCountry, LAMBDA r : r.status = toUpperCase(status))
      ELSE byCountry

\* Math.min(parseInt(limit, 10) || 100, max)
Lim(limit, max) == Min(OrDefault(parseInt(limit), DEFAULT_LIMIT), max)

\* const {country, status, limit = 100} = req.query: the default stands in for
\* an absent limit
LimitOrDefault(limit) == IF limit = Undefined THEN <<"1", "0", "0">> ELSE limit

\* app.get('/api/sms', requireAuth, ...)
SmsGet(c, q) ==
  /\ call' = [NoCall EXCEPT !.op = "sms", !.client = c, !.user = session[c],
                            !.query = q, !.read = requireAuth(session[c])]
  /\ res' = IF ~requireAuth(session[c]) THEN Unauthorized
            ELSE JsonRes(slice(FilterBy(smsData, q.country, q.status),
                               Lim(LimitOrDefault(q.limit), SMS_MAX_LIMIT)))
  /\ UNCHANGED <<now, lockouts, session, smsData, MCP_URL, DEMO_API_KEY, conns, timers, hist>>

----------------------------------------------------------------------------
(* part_000: the event stream *)

\* conns[n]: the n-th stream connection: its client, whether the transport is
\* open (no close event yet), whether the sink still takes writes, the send()
\* calls made for it, the frames written to it, the last of them, and how many
\* of them were written while the session of its client held no user (history).
\* timers[n]: the interval timers scheduled for it.

NoFrame == [id |-> 0]

\* crypto.randomUUID() in the k-th send() of connection n: a token that differs
\* from every other one and from the numeric ids of the dataset (the negative
\* numbers stand for the UUID strings)
randomUUID(n, k) == 0 - (n * (MaxTicks + 2) + k)

\* {...row, timestamp: Date.now(), id: crypto.randomUUID()}
WithNow(row, t, uuid) == [row EXCEPT !.timestamp = t, !.id = uuid]

\* app.get('/api/sms/stream', requireAuth, ...): the headers go out, one
\* interval timer is set and the close listener is registered
StreamOpen(c) ==
  /\ Len(conns) < MaxConns
  /\ call' = [NoCall EXCEPT !.op = "stream", !.client = c, !.user = session[c]]
  /\ IF ~requireAuth(session[c])
     THEN /\ res' = Unauthorized
          /\ UNCHANGED <<conns, timers>>
     ELSE /\ res' = [NoRes EXCEPT !.status = 200, !.source = "text/event-stream"]
          /\ conns' = Append(conns, [client |-> c, open |-> TRUE, writable |-> TRUE,
                                     sends |-> 0, frames |-> 0, last |-> NoFrame,
                                     orphan |-> 0])
          /\ timers' = Append(timers, 1)
  /\ UNCHANGED <<now, lockouts, session, smsData, MCP_URL, DEMO_API_KEY, hist>>

\* a send() that rewrites id and timestamp on the sampled record itself
StreamTickInPlace(n, i) ==
  /\ timers[n] > 0
  /\ conns[n].sends < MaxTicks
  /\ conns' = [conns EXCEPT ![n] =
       IF conns[n].open /\ conns[n].writable
       THEN [@ EXCEPT !.sends = @ + 1, !.frames = @ + 1,
                      !.last = WithNow(smsData[i], now, randomUUID(n, conns[n].sends + 1)),
                      !.orphan = IF session[conns[n].client] = NoUser THEN @ + 1 ELSE @]
       ELSE [@ EXCEPT !.sends = @ + 1]]
  /\ call' = NoCall
  /\ res' = NoRes
  /\ smsData' = IF conns[n].open /\ conns[n].writable
                 THEN [smsData EXCEPT ![i] = WithNow(@, now, randomUUID(n, conns[n].sends + 1))]
                 ELSE smsData
  /\ UNCHANGED <<now, lockouts, session, MCP_URL, DEMO_API_KEY, timers, hist>>

\* the interval fires: send() samples a row and writes a frame; a write that
\* fails puts nothing on the transport, and send() does not look at its outcome
StreamTick(n, i) ==
  /\ timers[n] > 0
  /\ conns[n].sends < MaxTicks
  /\ conns' = [conns EXCEPT ![n] =
       IF conns[n].open /\ conns[n].writable
       THEN [@ EXCEPT !.sends = @ + 1, !.frames = @ + 1,
                      !.last = WithNow(smsData[i], now, randomUUID(n, conns[n].sends + 1)),
                      !.orphan = IF session[conns[n].client] = NoUser THEN @ + 1 ELSE @]
       ELSE [@ EXCEPT !.sends = @ + 1]]
  /\ call' = NoCall
  /\ res' = NoRes
  /\ UNCHANGED <<now, lockouts, session, smsData, MCP_URL, DEMO_API_KEY, timers, hist>>

\* the sink stops taking writes (the response stream has errored or ended)
\* while the request's close event has not been delivered
SinkFail(n) ==
  /\ conns[n].open
  /\ conns[n].writable
  /\ conns' = [conns EXCEPT ![n].writable = FALSE]
  /\ call' = NoCall
  /\ res' = NoRes
  /\ UNCHANGED <<now, lockouts, session, smsData, MCP_URL, DEMO_API_KEY, timers, hist>>

\* a close listener that leaves the timer running
StreamCloseLeak(n) ==
  /\ conns[n].open
  /\ conns' = [conns EXCEPT ![n].open = FALSE]
  /\ call' = NoCall
  /\ res' = NoRes
  /\ UNCHANGED <<now, lockouts, session, smsData, MCP_URL, DEMO_API_KEY, timers, hist>>

\* req.on('close', () => clearInterval(timer))
StreamClose(n) ==
  /\ conns[n].open
  /\ conns' = [conns EXCEPT ![n].open = FALSE]
  /\ timers' = [timers EXCEPT ![n] = Max(@ - 1, 0)]
  /\ call' = NoCall
  /\ res' = NoRes
  /\ UNCHANGED <<now, lockouts, session, smsData, MCP_URL, DEMO_API_KEY, hist>>

----------------------------------------------------------------------------
(* The MCP bridge *)

\* what the upstream does with a forwarded query: fetch() rejects (failed), or
\* a response comes back with a status, a JSON content type or not, and a body
\* that parses as JSON or not
Upstreams ==
  {[failed |-> TRUE, status |-> 0, ctJson |-> FALSE, parses |-> FALSE, body |-> "ECONNREFUSED"],
   [failed |-> FALSE, status |-> 200, ctJson |-> TRUE, parses |-> TRUE, body |-> "upstream result"],
   [failed |-> FALSE, status |-> 200, ctJson |-> TRUE, parses |-> FALSE, body |-> "<html>"],
   [failed |-> FALSE, status |-> 200, ctJson |-> FALSE, parses |-> FALSE, body |-> "plain text"],
   [failed |-> FALSE, status |-> 500, ctJson |-> TRUE, parses |-> TRUE, body |-> "upstream error"],
   [failed |-> FALSE, status |-> 503, ctJson |-> FALSE, parses |-> FALSE, body |-> "Bad Gateway"]}

\* resp.ok
RespOk(up) == up.status >= 200 /\ up.status <= 299

BridgeFailed(details) == [ErrorRes(502, "MCP bridge failed") EXCEPT !.details = details]

\* out.filter(r => r.status === st).length
CountStatus(out, st) == Len(SelectSeq(out, LAMBDA r : r.status = st))

\* out.reduce((a, b) => a + b.latency_ms, 0)
RECURSIVE SumLatency(_)
SumLatency(out) == IF out = <<>> THEN 0 ELSE Head(out).latency_ms + SumLatency(Tail(out))

\* an aggregation that divides by total itself, without Math.max(1, total)
KpisNoGuard(out) ==
  [total |-> Len(out),
   delivered |-> CountStatus(out, DELIVERED),
   failed |-> CountStatus(out, FAILED),
   blocked |-> CountStatus(out, BLOCKED),
   avgLatency |-> [num |-> SumLatency(out), den |-> Len(out)]]

\* the kpis aggregation; avgLatency is the quotient num / den
Kpis(out) ==
  [total |-> Len(out),
   delivered |-> CountStatus(out, DELIVERED),
   failed |-> CountStatus(out, FAILED),
   blocked |-> CountStatus(out, BLOCKED),
   avgLatency |-> [num |-> SumLatency(out), den |-> Max(1, Len(out))]]

\* part_000: the forwarding branch, given the upstream's answer
Forward(up) ==
  IF up.failed THEN BridgeFailed(up.body)
  ELSE IF ~up.parses THEN BridgeFailed("invalid json")
  ELSE [JsonRes(up.body) EXCEPT !.source = "proximus-mcp"]

\* part_000: the mock branch
Mock(q) ==
  LET out == FilterBy(smsData, q.country, q.status)
  IN  IF q.resource = "kpis"
      THEN [JsonRes(Kpis(out)) EXCEPT !.source = "mock-mcp"]
      ELSE [JsonRes(slice(out, MOCK_SLICE)) EXCEPT !.source = "mock-mcp"]

\* part_000: app.post('/api/mcp/query', requireAuth, async ...)
McpQuery(c, q, up) ==
  LET authed == requireAuth(session[c])
      forward == authed /\ Truthy(MCP_URL)
  IN  /\ call' = [NoCall EXCEPT !.op = "mcp", !.client = c, !.user = session[c],
                                !.query = q,
                                !.upstream = IF forward THEN up ELSE NoUpstream,
                                !.fetched = forward,
                                !.read = authed /\ ~Truthy(MCP_URL)]
      /\ res' = IF ~authed THEN Unauthorized
                ELSE IF Truthy(MCP_URL) THEN Forward(up)
                ELSE Mock(q)
      /\ UNCHANGED <<now, lockouts, session, smsData, MCP_URL, DEMO_API_KEY, conns, timers, hist>>

----------------------------------------------------------------------------
(* server.js: the demo service *)

ProximusUser == "Proximus User"

DemoStartup(s, url, key) ==
  /\ now = StartTime
  /\ lockouts = << >>
  /\ session = [c \in Clients |-> NoUser]
  /\ smsData = seedData(s, StartTime)
  /\ MCP_URL = url
  /\ DEMO_API_KEY = key
  /\ conns = << >>
  /\ timers = << >>
  /\ call = NoCall
  /\ res = NoRes
  /\ hist = [ip \in Identities |-> NoHist]

\* server.js: app.post("/api/login")
DemoLogin(c, body) ==
  LET ok == body.username = "proximus" /\ body.password = "proximus123"
  IN  /\ call' = [NoCall EXCEPT !.op = "login", !.client = c, !.user = session[c],
                                !.body = body]
      /\ session' = IF ok THEN [session EXCEPT ![c] = ProximusUser] ELSE session
      /\ res' = IF ok THEN JsonRes([ok |-> TRUE]) ELSE ErrorRes(401, "Invalid credentials")
      /\ UNCHANGED <<now, lockouts, smsData, MCP_URL, DEMO_API_KEY, conns, timers, hist>>

\* server.js: app.post("/api/logout")
DemoLogout(c) ==
  /\ call' = [NoCall EXCEPT !.op = "logout", !.client = c, !.user = session[c]]
  /\ session' = [session EXCEPT ![c] = NoUser]
  /\ res' = JsonRes([ok |-> TRUE])
  /\ UNCHANGED <<now, lockouts, smsData, MCP_URL, DEMO_API_KEY, conns, timers, hist>>

\* server.js: app.get("/api/data"): a session or the X-API-Key header
DataGet(c, q) ==
  LET authed == session[c] /= NoUser
                  \/ (Truthy(DEMO_API_KEY) /\ q.key = DEMO_API_KEY)
  IN  /\ call' = [NoCall EXCEPT !.op = "data", !.client = c, !.user = session[c],
                                !.query = q, !.read = authed]
      /\ res' = IF ~authed THEN Unauthorized
                ELSE JsonRes(slice(FilterBy(smsData, q.country, q.status),
                                   Lim(q.limit, DATA_MAX_LIMIT)))
      /\ UNCHANGED <<now, lockouts, session, smsData, MCP_URL, DEMO_API_KEY, conns, timers, hist>>

\* server.js: the bridge's answer, given the upstream's
DemoForward(up) ==
  IF up.failed THEN BridgeFailed(up.body)
  ELSE IF ~RespOk(up)
       THEN BridgeFailed(IF up.ctJson /\ ~up.parses THEN "{}" ELSE up.body)
  ELSE IF up.ctJson
       THEN IF up.parses THEN JsonRes(up.body) ELSE BridgeFailed("invalid json")
  ELSE JsonRes([raw |-> up.body])

\* server.js: app.post("/api/mcp/query", requireAuth, async ...)
DemoMcpQuery(c, q, up) ==
  LET authed == requireAuth(session[c])
      forward == authed /\ Truthy(MCP_URL)
  IN  /\ call' = [NoCall EXCEPT !.op = "mcp", !.client = c, !.user = session[c],
                                !.query = q,
                                !.upstream = IF forward THEN up ELSE NoUpstream,
                                !.fetched = forward]
      /\ res' = IF ~authed THEN Unauthorized
                ELSE IF ~Truthy(MCP_URL)
                     THEN ErrorRes(500, "MCP_URL not set on demo service")
                ELSE DemoForward(up)
      /\ UNCHANGED <<now, lockouts, session, smsData, MCP_URL, DEMO_API_KEY, conns, timers, hist>>

----------------------------------------------------------------------------
(* The requests the clients send *)

GoodLogin == [username |-> "proximus", password |-> "proximus123"]

CountryParams == {Undefined, <<"u","s">>, <<"I","t">>, <<>>}
StatusParams == {Undefined, <<"f","a","i","l","e","d">>, DELIVERED,
                 <<"P","e","n","d","i","n","g">>}
LimitParams == {Undefined, <<"2">>, <<"0">>, <<"-","1">>, <<"a","b","c">>,
                <<"6","0","0">>, <<" ","3","x">>, <<"1","2","0","0">>}
KeyParams == {Undefined, <<"k">>, <<"x">>}

\* GET /api/sms?country=..&status=..&limit=..
SmsQueries ==
  {[NoQuery EXCEPT !.country = co, !.status = st, !.limit = li] :
     co \in CountryParams, st \in StatusParams, li \in LimitParams}

\* GET /api/data, with or without the X-API-Key header
DataQueries ==
  {q \in SmsQueries : q.status \in {Undefined, DELIVERED}}
    \cup {[NoQuery EXCEPT !.key = k] : k \in KeyParams}

\* POST /api/mcp/query {prompt, resource, filters}
McpQueries ==
  {[NoQuery EXCEPT !.country = co, !.status = st, !.resource = r] :
     co \in CountryParams, st \in StatusParams, r \in {"kpis", "raw"}}

PlainQuery == NoQuery
KpisQuery == [NoQuery EXCEPT !.resource = "kpis"]

\* part_000, the session gate: logins, logouts, session expiry, the three
\* protected routes and stream closes
NextGate ==
  \/ \E c \in Clients : Login(c, Undefined, RemoteOf(c), GoodLogin)
  \/ \E c \in Clients : Logout(c)
  \/ \E c \in Clients : SessionExpire(c)
  \/ \E c \in Clients : SmsGet(c, PlainQuery)
  \/ \E c \in Clients, up \in {u \in Upstreams : u.status /= 200} :
       McpQuery(c, KpisQuery, up)
  \/ \E c \in Clients : StreamOpen(c)
  \/ \E n \in DOMAIN conns : StreamClose(n)

InitGate == \E url \in {Null, <<"u">>} : Startup(2, url)

SpecGate == InitGate /\ [][NextGate]_vars

\* part_000, the event stream of one client: the interval fires at any time
\* while it is scheduled
NextStream ==
  \/ Login("c1", Undefined, RemoteOf("c1"), GoodLogin)
  \/ Logout("c1")
  \/ SessionExpire("c1")
  \/ StreamOpen("c1")
  \/ \E n \in DOMAIN conns, i \in {1, Len(smsData)} : StreamTick(n, i)
  \/ \E n \in DOMAIN conns : StreamClose(n)

InitStream == Startup(2, Null)

SpecStream == InitStream /\ [][NextStream]_vars

\* part_000, the tracker as a unit: its two functions are called in any order,
\* next to the login route that calls them in its own order, and the filtered
\* read of the client.  (Through the login route alone no lock is ever set:
\* checkLockout removes the entry registerAttempt would count on.)
NextTracker ==
  \/ \E b \in {GoodLogin, [GoodLogin EXCEPT !.password = "letmein"]} :
       Login("c1", Undefined, RemoteOf("c1"), b)
  \/ \E ip \in Identities : CheckStep(ip)
  \/ \E ip \in Identities, success \in BOOLEAN : RegisterStep(ip, success)
  \/ SmsGet("c1", PlainQuery)
  \/ Advance

InitTracker == Startup(2, Null)

SpecTracker == InitTracker /\ [][NextTracker]_vars

\* part_000, the event stream with a sink that may fail: the response stream
\* stops taking writes at any time before the close event
NextSink ==
  \/ Login("c1", Undefined, RemoteOf("c1"), GoodLogin)
  \/ Logout("c1")
  \/ StreamOpen("c1")
  \/ \E n \in DOMAIN conns, i \in {1, Len(smsData)} : StreamTick(n, i)
  \/ \E n \in DOMAIN conns : SinkFail(n)
  \/ \E n \in DOMAIN conns : StreamClose(n)

InitSink == Startup(2, Null)

SpecSink == InitSink /\ [][NextSink]_vars

\* part_000, the users of the dataset side by side: the filtered read, the
\* mock branch of the bridge and the ticks of the client's streams
NextShared ==
  \/ Login("c1", Undefined, RemoteOf("c1"), GoodLogin)
  \/ \E q \in {PlainQuery, [NoQuery EXCEPT !.country = <<"u","s">>, !.limit = <<"2">>]} :
       SmsGet("c1", q)
  \/ \E q \in {PlainQuery, KpisQuery} : McpQuery("c1", q, NoUpstream)
  \/ StreamOpen("c1")
  \/ \E n \in DOMAIN conns, i \in {1, Len(smsData)} : StreamTick(n, i)
  \/ \E n \in DOMAIN conns : StreamClose(n)

InitShared == \E s \in 0..MaxSeed : Startup(s, Null)

SpecShared == InitShared /\ [][NextShared]_vars

\* the upstream answers when it is called
McpInputs(queries) ==
  IF Truthy(MCP_URL)
  THEN {<<KpisQuery, up>> : up \in Upstreams}
  ELSE {<<q, NoUpstream>> : q \in queries}

\* part_000, the dataset routes of one client: the filtered read and the bridge
NextData ==
  \/ Login("c1", Undefined, RemoteOf("c1"), GoodLogin)
  \/ Logout("c1")
  \/ \E q \in SmsQueries : SmsGet("c1", q)
  \/ \E in \in McpInputs(McpQueries) : McpQuery("c1", in[1], in[2])

InitData == \E s \in 0..MaxSeed, url \in {Null, <<"u">>} : Startup(s, url)

SpecData == InitData /\ [][NextData]_vars

\* server.js, one client
NextDemo ==
  \/ \E b \in Credentials : DemoLogin("c1", b)
  \/ DemoLogout("c1")
  \/ \E q \in DataQueries : DataGet("c1", q)
  \/ \E in \in McpInputs({KpisQuery}) : DemoMcpQuery("c1", in[1], in[2])

InitDemo ==
  \E s \in 0..MaxSeed, url \in {Null, <<"u">>}, key \in {Null, <<"k">>} :
    DemoStartup(s, url, key)

SpecDemo == InitDemo /\ [][NextDemo]_vars

----------------------------------------------------------------------------
(* The lockout claims, under SpecAuth *)

\* C1: when an identity has just made MAX_ATTEMPTS failed logins in a row and
\* the lock they start has not run out, its next login is answered 429 and
\* leaves every session as it was, whatever credentials it carries.
C1_LockedAfterMaxAttempts ==
  [][(/\ call'.op = "login"
      /\ hist[call'.ip].fails = MAX_ATTEMPTS
      /\ now < hist[call'.ip].lastFailAt + LOCK_MS)
     => (res'.status = 429 /\ session' = session)]_vars

\* C2: the state a successful login leaves holds no entry for its identity, and
\* an identity whose last five attempts were fail, fail, ok, fail, fail is not
\* locked.
C2_SuccessClearsHistory ==
  /\ (call.op = "login" /\ res.status = 200) => call.ip \notin DOMAIN lockouts
  /\ \A ip \in Identities :
       hist[ip].stage = Len(FFSFF) => ~Locked(lockouts, ip, now)

C2_Witness ==
  /\ call.op = "login"
  /\ hist[call.ip].stage = Len(FFSFF)
  /\ res.status = 401
  /\ call.ip \in DOMAIN lockouts

C8_NoCrossContamination ==
  [][\A ip \in Identities :
       EntryOf(lockouts', ip) /= EntryOf(lockouts, ip)
         => (call'.op = "login" /\ call'.ip = ip)]_vars

C8_Witness ==
  /\ call.op = "login"
  /\ res.status = 200
  /\ \E ip \in Identities : ip /= call.ip /\ ip \in DOMAIN lockouts /\ lockouts[ip].attempts > 0

\* C13: the check leaves alone an entry that counts failures and has never
\* been locked, so the count goes on from one attempt to the next: after a
\* failed login of an identity holding such an entry, the entry is the one
\* registerAttempt makes of the entry held before.
C13_CheckKeepsUnlockedEntry ==
  [][(/\ call'.op = "login"
      /\ res'.status = 401
      /\ \E e \in EntryOf(lockouts, call'.ip) : e.until = 0 /\ e.attempts > 0)
     => EntryOf(lockouts', call'.ip)
          = EntryOf(registerAttempt(lockouts, call'.ip, FALSE, now), call'.ip)]_vars

\* C16: a login request is one step (the handler runs from the check to
\* registerAttempt without yielding), and no failed attempt is lost: the k-th
\* failure of an identity since its last success, k < MAX_ATTEMPTS, leaves its
\* count at k, and a lock is set only by a failure that makes MAX_ATTEMPTS.
C16_NoLostAttempt ==
  [][(call'.op = "login" /\ res'.status = 401)
     => LET ip == call'.ip
        IN  /\ hist[ip].fails + 1 < MAX_ATTEMPTS
                 => lockouts'[ip] = [attempts |-> hist[ip].fails + 1, until |-> 0]
            /\ lockouts'[ip].until = now + LOCK_MS
                 => hist[ip].fails + 1 >= MAX_ATTEMPTS]_vars

----------------------------------------------------------------------------
(* The tracker's functions, under SpecTracker *)

\* the identity holds a lock whose time has passed
Expired(m, ip, t) == ip \in DOMAIN m /\ m[ip].until /= 0 /\ m[ip].until <= t

\* C11: once the lock time of an identity has passed, the next checkLockout for
\* it answers not-locked, and a login of that identity is answered on its
\* credentials alone: 200 and a session for the right ones, 401 otherwise.
C11_ExpiredLockUnlocks ==
  [][(call'.op \in {"check", "login"} /\ Expired(lockouts, call'.ip, now))
     => /\ ~Locked(lockouts', call'.ip, now) \/ call'.registered = 1
        /\ call'.op = "check" => res'.error = ""
        /\ call'.op = "login" =>
             IF call'.body = GoodLogin
             THEN res'.status = 200 /\ session'[call'.client] = DemoUser
             ELSE res'.status = 401 /\ session' = session]_vars

\* a lock that has run out, found by a login with the right credentials
C11_Witness ==
  /\ call.op = "login"
  /\ res.status = 200
  /\ \E e \in call.entry : e.until /= 0 /\ e.until <= now
  /\ call.ip \notin DOMAIN lockouts

\* C14: a login answered 429 calls registerAttempt not at all and leaves the
\* map as it was: the attempt neither counts nor extends the lock.  Every other
\* login calls it once, on the map the check left: after a 401 the identity has
\* an entry, after a 200 it has none.
C14_RegisterOncePerCheckedAttempt ==
  [][call'.op = "login" =>
       IF res'.status = 429
       THEN call'.registered = 0 /\ lockouts' = lockouts
       ELSE /\ call'.registered = 1
            /\ lockouts' = registerAttempt(checkLockout(lockouts, call'.ip, now).lockouts,
                                           call'.ip, res'.status = 200, now)
            /\ res'.status = 401 => call'.ip \in DOMAIN lockouts'
            /\ res'.status = 200 => call'.ip \notin DOMAIN lockouts']_vars

\* an attempt with the right credentials turned away half way through the lock
C14_Witness ==
  /\ call.op = "login"
  /\ res.status = 429
  /\ call.body = GoodLogin
  /\ call.entry = {[attempts |-> 0, until |-> now + TimeStep]}
  /\ EntryOf(lockouts, call.ip) = call.entry

\* C15: registerAttempt(ip, false) leaves an entry for ip whose count is one
\* more than before (0 for an absent entry), unless that reaches MAX_ATTEMPTS:
\* then the entry is locked until now + 10 minutes and counts 0.  So every
\* stored entry counts at least 0 and less than MAX_ATTEMPTS, and none has both
\* attempts = 0 and until = 0.
C15_CountBelowMaxAttempts ==
  /\ [](\A ip \in DOMAIN lockouts :
          /\ 0 <= lockouts[ip].attempts /\ lockouts[ip].attempts < MAX_ATTEMPTS
          /\ ~(lockouts[ip].attempts = 0 /\ lockouts[ip].until = 0))
  /\ [][(call'.op = "register" /\ call'.body = NoBody)
        => LET ip == call'.ip
               e == IF ip \in DOMAIN lockouts THEN lockouts[ip] ELSE NoEntry
           IN  /\ ip \in DOMAIN lockouts'
               /\ lockouts'[ip] =
                    IF e.attempts + 1 = MAX_ATTEMPTS
                    THEN [attempts |-> 0, until |-> now + LOCK_MINUTES * MINUTE_MS]
                    ELSE [attempts |-> e.attempts + 1, until |-> e.until]
               /\ \A x \in Identities \ {ip} :
                    EntryOf(lockouts', x) = EntryOf(lockouts, x)]_vars

\* the third failure in a row has locked the identity and reset its count
C15_Witness ==
  /\ call.op = "register"
  /\ call.body = NoBody
  /\ call.entry = {[attempts |-> MAX_ATTEMPTS - 1, until |-> 0]}
  /\ lockouts[call.ip] = [attempts |-> 0, until |-> now + LOCK_MS]

\* C20: a login answered 401 or 429 leaves every session as it was, so it
\* neither creates one nor destroys the caller's; and a protected read by a
\* client whose session holds a user is served, whether or not the tracker holds
\* a lock for its address.
C20_FailedLoginKeepsSession ==
  [][/\ (call'.op = "login" /\ res'.status \in {401, 429}) => session' = session
     /\ (call'.op = "sms" /\ session[call'.client] /= NoUser) => res'.status = 200]_vars

\* a logged-in client is turned away by the lock and is still logged in
C20_Witness ==
  /\ call.op = "login"
  /\ res.status = 429
  /\ call.user = DemoUser
  /\ session[call.client] = DemoUser
  /\ Locked(lockouts, call.ip, now)

----------------------------------------------------------------------------
(* The session gate, under SpecGate *)

ProtectedOps == {"sms", "stream", "mcp"}

\* C4: a request to a protected route whose session holds no user is answered
\* 401 Unauthorized and does nothing else: it reads no data, sets no timer,
\* opens no stream and calls no upstream; with a user it is not answered 401.
C4_ProtectedNeedSession ==
  [][call'.op \in ProtectedOps =>
       IF session[call'.client] = NoUser
       THEN /\ res' = Unauthorized
            /\ ~call'.read /\ ~call'.fetched
            /\ UNCHANGED <<conns, timers, session, lockouts, smsData>>
       ELSE res'.status /= 401]_vars

\* a client that opened a stream while logged in is turned away, its session gone
C4_Witness ==
  /\ call.op = "stream"
  /\ call.user = NoUser
  /\ res = Unauthorized
  /\ \E n \in DOMAIN conns : conns[n].client = call.client

\* C12: a logout is answered {ok: true} and leaves its client's session without
\* a user, whether the session held one or not; it changes no other client's
\* session, and a logout of a client with no session changes no session at all.
C12_LogoutIdempotent ==
  [][call'.op = "logout" =>
       /\ res' = JsonRes([ok |-> TRUE])
       /\ session' = [session EXCEPT ![call'.client] = NoUser]
       /\ session[call'.client] = NoUser => session' = session]_vars

\* a second logout in a row, by a client that had logged in
C12_Witness ==
  /\ call.op = "logout"
  /\ call.user = NoUser
  /\ res.status = 200
  /\ \E n \in DOMAIN conns : conns[n].client = call.client

----------------------------------------------------------------------------
(* The event stream, under SpecStream *)

\* C5: an open connection has exactly one interval timer scheduled and a closed
\* one has none; after its close no send() runs and no frame is written for it.
C5_TimerBoundToConnection ==
  /\ [](/\ DOMAIN timers = DOMAIN conns
        /\ \A n \in DOMAIN conns : timers[n] = IF conns[n].open THEN 1 ELSE 0)
  /\ [][\A n \in DOMAIN conns :
          ~conns[n].open => /\ conns'[n].sends = conns[n].sends
                            /\ conns'[n].frames = conns[n].frames]_vars

\* one connection closed after its frames, another opened, served and still open
C5_Witness ==
  \E n, m \in DOMAIN conns :
    /\ n < m
    /\ ~conns[n].open /\ conns[n].frames > 0
    /\ conns[m].open /\ conns[m].frames = MaxTicks

\* C17: once a write of a connection has failed (a send() that put no frame on
\* the transport), no further send() runs for that connection.
C17_WriteFailureCancels ==
  [][\A n \in DOMAIN conns :
       conns[n].frames < conns[n].sends => conns'[n].sends = conns[n].sends]_vars

\* C18: a timer is cleared only in the step that closes its connection; a step
\* that changes a session (login, logout, expiry) changes no connection and no
\* timer, so a stream goes on writing frames when its client's session is gone.
C18_OnlyCloseCancels ==
  [][/\ \A n \in DOMAIN timers :
          timers'[n] /= timers[n] => (conns[n].open /\ ~conns'[n].open)
     /\ (session' /= session \/ call'.op = "logout") => UNCHANGED <<conns, timers>>]_vars

\* every frame of an open stream was written after its client had logged out
C18_Witness ==
  /\ session["c1"] = NoUser
  /\ \E n \in DOMAIN conns :
       /\ conns[n].open /\ timers[n] = 1
       /\ conns[n].orphan = MaxTicks

----------------------------------------------------------------------------
(* The bridge and the filtered read, under SpecData and SpecDemo *)

\* the record passes the filters of the query
Matches(r, q) ==
  /\ Truthy(q.country) => r.country = toUpperCase(q.country)
  /\ Truthy(q.status) => r.status = toUpperCase(q.status)

\* the positions of the dataset the query selects
Subset(q) == {i \in DOMAIN smsData : Matches(smsData[i], q)}

RECURSIVE LatencyOver(_)
LatencyOver(idx) ==
  IF idx = {} THEN 0
  ELSE LET i == CHOOSE x \in idx : TRUE
       IN  smsData[i].latency_ms + LatencyOver(idx \ {i})

\* C6: when the upstream was called and the call failed or came back with a
\* non-success status, the answer is 502 "MCP bridge failed" with details, and
\* not a result.
C6_UpstreamFailureIs502 ==
  (/\ call.op = "mcp"
   /\ call.fetched
   /\ (call.upstream.failed \/ ~RespOk(call.upstream)))
  => (/\ res.status = 502
      /\ res.error = "MCP bridge failed"
      /\ res.details /= ""
      /\ res.source = "")

\* C7: a query of a logged-in client takes one path, chosen by MCP_URL alone:
\* with an endpoint the upstream is called and the dataset is not read; with
\* none no call is made and the answer is a successful local result.
C7_OnePathByConfiguration ==
  (call.op = "mcp" /\ call.user /= NoUser)
  => IF Truthy(MCP_URL)
     THEN call.fetched /\ ~call.read /\ res.source /= "mock-mcp"
     ELSE ~call.fetched /\ call.read /\ res.status = 200 /\ res.source = "mock-mcp"

\* C9: with no endpoint, a kpis query answers with total the size of the
\* selected subset (the whole dataset for empty filters), the three status
\* counts summing to at most total, and avgLatency the mean latency of the
\* subset: within [100, 3100) when total > 0, and 0 over a non-zero divisor
\* when total = 0.
C9_KpisOverSubset ==
  (call.op = "mcp" /\ call.read /\ call.query.resource = "kpis")
  => LET d == res.data
         idx == Subset(call.query)
     IN  /\ res.status = 200
         /\ d.total = Cardinality(idx)
         /\ (~Truthy(call.query.country) /\ ~Truthy(call.query.status))
              => d.total = Len(smsData)
         /\ d.delivered + d.failed + d.blocked <= d.total
         /\ d.avgLatency.den > 0
         /\ d.avgLatency.num * Max(1, d.total) = LatencyOver(idx) * d.avgLatency.den
         /\ IF d.total > 0
            THEN /\ LATENCY_MIN * d.avgLatency.den <= d.avgLatency.num
                 /\ d.avgLatency.num < (LATENCY_MIN + LATENCY_SPAN) * d.avgLatency.den
            ELSE d.avgLatency.num = 0

\* a subset that is neither empty nor the whole dataset, holding a PENDING record
C9_Witness ==
  /\ call.op = "mcp" /\ call.read /\ call.query.resource = "kpis"
  /\ res.data.total > 0 /\ res.data.total < Len(smsData)
  /\ res.data.delivered + res.data.failed + res.data.blocked < res.data.total

\* C10: the records of a filtered read all pass the filters given; a numeric
\* limit bounds their number, clamped to the route's maximum; with no limit or
\* a non-numeric one the first 100 records that pass are returned.
C10_FilteredAndLimited ==
  (call.op \in {"sms", "data"} /\ res.status = 200)
  => LET q == call.query
         n == parseInt(q.limit)
         max == IF call.op = "sms" THEN SMS_MAX_LIMIT ELSE DATA_MAX_LIMIT
     IN  /\ \A i \in DOMAIN res.data : Matches(res.data[i], q)
         /\ IF q.limit = Undefined \/ n.nan
            THEN Len(res.data) = Min(DEFAULT_LIMIT, Cardinality(Subset(q)))
            ELSE Len(res.data) <= Max(0, Min(n.val, max))

----------------------------------------------------------------------------
(* The dataset, under SpecShared *)

\* C19: no step changes the dataset: it stays the array built at startup, and a
\* frame written by a tick is a copy of one of its records under a new id and
\* timestamp, the record itself keeping its own.
C19_DatasetNeverChanged ==
  /\ [][smsData' = smsData]_vars
  /\ [](\E s \in 0..MaxSeed : smsData = smsDataInit(s, StartTime))
  /\ [](\A n \in DOMAIN conns :
          conns[n].frames > 0 =>
            \E i \in DOMAIN smsData :
              /\ conns[n].last = WithNow(smsData[i], conns[n].last.timestamp, conns[n].last.id)
              /\ conns[n].last.id /= smsData[i].id
              /\ smsData[i].id = i)

\* a read of the whole dataset after the ticks of a stream
C19_Witness ==
  /\ call.op = "sms" /\ call.read
  /\ res.data = smsData
  /\ \E n \in DOMAIN conns : conns[n].frames = MaxTicks

====
